---- MODULE Spec2Model ----
(***************************************************************************)
(* State-machine model of the news pipeline: deduplication (embedding +    *)
(* connected-component clustering), per-cluster scoring and enrichment,    *)
(* and the per-user incremental refresh / smart cache on top of the        *)
(* feed_items and feed_cache tables.                                       *)
(***************************************************************************)
EXTENDS Integers, Sequences, FiniteSets, Bags, TLC

\* ------------------------------------------------------------------ bounds
MaxArticles == 3
MaxFeedArticles == 2
MaxUsers == 2
MaxCalls == 2
MaxTicks == 2
MaxClusters == 3
MaxKeywords == 2
MaxInteractions == 2
MaxRequests == 2
MaxUserActions == 3
MaxSelectedKeywords == 3
MaxCompletions == 2

ArticleIds == 1..MaxArticles
FeedArticleIds == 1..MaxFeedArticles
Users == 1..MaxUsers
Calls == 1..MaxCalls
ClusterIds == 1..MaxClusters
Keywords == 1..MaxKeywords

\* ------------------------------------------------------- program constants
DefaultSimilarityThreshold == 85
cache_ttl_minutes == 30
deep_research_threshold == 70
DefaultWeight == 50
Thresholds == {70, DefaultSimilarityThreshold, 95}

\* Embedding vectors the embedding service can answer with.
EmbValues == {<<1, 0>>, <<2, 1>>, <<1, 1>>}
\* the typed error of the embedding service, in place of a vector
EmbeddingError == <<>>
NoRun == [thr |-> 0, input |-> <<>>, emb |-> <<>>, clusters |-> <<>>, errors |-> 0]

VARIABLES
    articles,          \* the input list of one clustering run (article ids)
    embed_service,     \* what embed(text) answers for each article
    embedding_cache,   \* article id -> vector, filled by get_embedding
    run,               \* the last clustering run: threshold, embeddings, clusters
    prev_run,          \* the run before it
    now,               \* the clock, in minutes
    published_at,      \* article id -> published_at at the collector, 0: not there yet
    feed_items,        \* the rows of table feed_items (a bag of rows)
    feed_cache,        \* user -> the user's feed_cache entry
    last_seen,         \* user -> last_seen_published_at
    refresh_lock,      \* user -> the call holding the user's refresh lock, 0: free
    calls,             \* call -> the state of one refresh / smart_fetch call
    last_refresh,      \* user -> how many articles the collector had at the fetch
                       \*         of the user's last completed refresh, -1: none
    response,          \* the last response delivered to a caller
    tasks,             \* cluster -> the state of its processing in a pipeline run
    emitted,           \* the story list the run emitted
    scoring_errors,    \* the run's count of clusters whose scoring failed
    run_done,          \* the run has emitted its stories
    returned,          \* the clusters whose task returned a story, in that order
    weights,           \* keyword -> interest_weights.weight of one user (hundredths)
    engagement_count,  \* keyword -> interest_weights.engagement_count
    learning_rate,     \* the configured learning rate (tenths)
    interaction,       \* the interaction update_weights applied last
    isLoading,         \* personal page: a full scan is running
    isRefreshing,      \* personal page: an incremental refresh is running
    showNewItemsBanner,
    newItemsCount,
    viewMode,
    filterMode,
    persistedFeed,     \* the items the page displays
    persisted_seq,     \* the number of the getUserFeed call that put them there
    persisted_filter,  \* the filter that call was made with
    stored_item,       \* the user's article and its flags at the server
    request_seq,       \* the getUserFeed calls made so far
    refreshes,         \* slot -> a running handleIncrementalRefresh
    scan,              \* the running handleScan
    loads,             \* slot -> a loadPersistedFeed of the filter effect
    counts,            \* slot -> a running checkForNewItems
    toggles,           \* slot -> a running handleLike / handleDislike / handleSave
    mark_checked,      \* the markFeedChecked calls sent
    refresh_epoch,     \* the refreshes that have reset the banner
    hidden_by_refresh, \* the banner is hidden since a refresh hid it
    polling_banner,    \* showNewItemsBanner as the polling effect's closure has it
    user_actions,      \* the clicks and gestures of the user so far
    currentStep,       \* onboarding: the wizard's step
    presets_loaded,    \* onboarding: getOnboardingPresets has answered
    selectedPreset,
    selectedCategories,
    selectedKeywords,
    selectedSources,
    completing,        \* onboarding: isLoading of the wizard
    completions,       \* the completeOnboarding requests sent
    left_page          \* onboarding: router.push('/personal') has run

cvars == <<articles, embed_service, embedding_cache, run, prev_run>>
fvars == <<now, published_at, feed_items, feed_cache, last_seen,
           refresh_lock, calls, last_refresh, response>>
rvars == <<tasks, emitted, scoring_errors, run_done, returned>>
lvars == <<weights, engagement_count, learning_rate, interaction>>
pvars == <<isLoading, isRefreshing, showNewItemsBanner, newItemsCount, viewMode,
           filterMode, persistedFeed, persisted_seq, persisted_filter, stored_item, request_seq,
           refreshes, scan, loads, counts, toggles, mark_checked,
           refresh_epoch, hidden_by_refresh, polling_banner, user_actions>>
ovars == <<currentStep, presets_loaded, selectedPreset, selectedCategories,
           selectedKeywords, selectedSources, completing, completions,
           left_page>>
vars == <<cvars, fvars, rvars, lvars, pvars, ovars>>

\* =================================================================== 4.1
\* Deduplicator

Dot(a, b) == a[1] * b[1] + a[2] * b[2]

\* the largest s in lo..hi with s * s * den <= num (lo satisfies it)
RECURSIVE FloorRoot(_, _, _, _)
FloorRoot(lo, hi, num, den) ==
    IF lo = hi THEN lo
    ELSE LET mid == (lo + hi + 1) \div 2
         IN IF mid * mid * den <= num
            THEN FloorRoot(mid, hi, num, den)
            ELSE FloorRoot(lo, mid - 1, num, den)

\* cosine similarity of two vectors, in hundredths, rounded down
cosine_similarity(a, b) ==
    IF Dot(a, b) <= 0 THEN 0
    ELSE FloorRoot(0, 100, 10000 * Dot(a, b) * Dot(a, b), Dot(a, a) * Dot(b, b))

\* get_embedding: the cached vector, or the service's answer
get_embedding(cache, a) ==
    IF a \in DOMAIN cache THEN cache[a] ELSE embed_service[a]

\* The similarity matrix over the positions of the input list.  An article
\* whose embedding failed has no similarity to any other article.
SimilarityMatrix(input, emb) ==
    [i \in 1..Len(input) |-> [j \in 1..Len(input) |->
        IF i = j THEN 100
        ELSE IF emb[i] = EmbeddingError \/ emb[j] = EmbeddingError THEN -1
        ELSE cosine_similarity(emb[i], emb[j])]]

\* the edge test with the comparison the wrong way round
EdgeTestInverted(visited, similarities, idx, j, similarity_threshold) ==
    j \notin visited /\ similarities[idx][j] <= similarity_threshold

\* the edge test looking only at later articles instead of unvisited ones
EdgeTestForward(visited, similarities, idx, j, similarity_threshold) ==
    j > idx /\ similarities[idx][j] >= similarity_threshold

\* the DFS edge test
EdgeTest(visited, similarities, idx, j, similarity_threshold) ==
    j \notin visited /\ similarities[idx][j] >= similarity_threshold

RECURSIVE ScanNeighbours(_, _, _, _, _, _)
ScanNeighbours(j, idx, st, similarities, thr, n) ==
    IF j > n THEN st
    ELSE IF EdgeTest(st.visited, similarities, idx, j, thr)
         THEN ScanNeighbours(j + 1, idx,
                  [visited |-> st.visited \cup {j},
                   cluster |-> Append(st.cluster, j),
                   stack |-> Append(st.stack, j)],
                  similarities, thr, n)
         ELSE ScanNeighbours(j + 1, idx, st, similarities, thr, n)

RECURSIVE Dfs(_, _, _, _)
Dfs(st, similarities, thr, n) ==
    IF st.stack = <<>> THEN st
    ELSE LET idx == st.stack[Len(st.stack)]
             popped == [st EXCEPT !.stack = SubSeq(st.stack, 1, Len(st.stack) - 1)]
         IN Dfs(ScanNeighbours(1, idx, popped, similarities, thr, n),
                similarities, thr, n)

RECURSIVE ClusterLoop(_, _, _, _, _, _)
ClusterLoop(i, visited, clusters, similarities, thr, n) ==
    IF i > n THEN clusters
    ELSE IF i \in visited
         THEN ClusterLoop(i + 1, visited, clusters, similarities, thr, n)
         ELSE LET st == Dfs([visited |-> visited \cup {i},
                             cluster |-> <<i>>, stack |-> <<i>>],
                            similarities, thr, n)
              IN ClusterLoop(i + 1, st.visited, Append(clusters, st.cluster),
                             similarities, thr, n)

\* cluster(articles): the clusters, each the set of its member article ids,
\* in the order of their cluster ids (cluster_0001, cluster_0002, ...)
cluster_articles(input, emb, thr) ==
    LET similarities == SimilarityMatrix(input, emb)
        byIndex == ClusterLoop(1, {}, <<>>, similarities, thr, Len(input))
    IN [k \in 1..Len(byIndex) |->
           {input[byIndex[k][m]] : m \in 1..Len(byIndex[k])}]

\* the embeddings of one run, by position in the input list
Embeddings(input, cache) == [i \in 1..Len(input) |-> get_embedding(cache, input[i])]

EmbeddingErrors(emb) == Cardinality({i \in DOMAIN emb : emb[i] = EmbeddingError})

RECURSIVE SeqOfSet(_)
SeqOfSet(S) ==
    IF S = {} THEN <<>>
    ELSE LET m == CHOOSE x \in S : \A y \in S : x <= y
         IN <<m>> \o SeqOfSet(S \ {m})

\* representative selection: 0.4 recency + 0.3 content length + 0.3 source
\* reputation, each normalised within the cluster; ties go to the lower id
ContentLength(a) == 100 * ((a % 3) + 1)
Source(a) == IF a % 2 = 0 THEN "reuters" ELSE "blog"
reputation_sources == {"reuters", "bloomberg", "wsj", "ft.com", "cnbc"}
\* reputation_score in tenths: 1.0 for a known source, else 0.5
reputation_score(a) == IF Source(a) \in reputation_sources THEN 10 ELSE 5

MaxOf(S) == CHOOSE x \in S : \A y \in S : y <= x

\* the weighted score of article a within its cluster, times the product of
\* the normalising maxima
RepresentativeScore(a, cluster, pub) ==
    LET maxPub == MaxOf({pub[b] : b \in cluster} \cup {1})
        maxLen == MaxOf({ContentLength(b) : b \in cluster})
    IN 4 * pub[a] * maxLen * 10
       + 3 * ContentLength(a) * maxPub * 10
       + 3 * reputation_score(a) * maxPub * maxLen

get_representative_article(cluster, pub) ==
    CHOOSE a \in cluster :
        \A b \in cluster :
            \/ RepresentativeScore(b, cluster, pub) < RepresentativeScore(a, cluster, pub)
            \/ /\ RepresentativeScore(b, cluster, pub) = RepresentativeScore(a, cluster, pub)
               /\ a <= b

\* =================================================================== 4.4
\* Incremental Updater & Cache

NoCache == [cached |-> FALSE, cached_at |-> 0, expires_at |-> 0, feed_data |-> {}]
\* the body of a response that is not a refresh result
NoBody == [message |-> "none"]

\* interface RefreshFeedResponse: the result of a refresh as the caller gets it
RefreshFeedResponse(added, items) ==
    [message |-> "refreshed", new_items_added |-> added,
     total_items |-> Cardinality(items), items |-> items]

\* the error count a response body carries, 0 when it has no such field
ErrorCount(body) == IF "error_count" \in DOMAIN body THEN body.error_count ELSE 0

NoResponse == [op |-> "none", user |-> 0, status |-> "none", body |-> NoBody,
               payload |-> {}, from_cache |-> FALSE,
               at |-> 0, cache_expires_at |-> 0,
               feed_before |-> {}, ok_stories |-> {}, failed_clusters |-> 0,
               no_new |-> FALSE]
IdleCall == [pc |-> "idle", op |-> "none", user |-> 0, forced |-> FALSE,
             called_at |-> 0, cache_expires_at |-> 0, fetched |-> {}, coll |-> 0]

\* the articles the collector has
CollectorArticles == {a \in FeedArticleIds : published_at[a] > 0}

\* Collector.fetch(since): the articles published after `since`
fetch(since) == {a \in CollectorArticles : published_at[a] > since}

\* a row of feed_items, by its key columns
FeedRow(u, a) == [user_id |-> u, article_id |-> a]

\* the article ids of a user's feed
UserFeed(items, u) == {r.article_id : r \in {x \in BagToSet(items) : x.user_id = u}}

\* a key that looks for the article among the rows of the other users
UniqueViolationOtherUser(items, u, a) ==
    \E r \in BagToSet(items) : r.user_id # u /\ r.article_id = a

\* UNIQUE(user_id, article_id) of feed_items: a row with this key exists
UniqueViolation(items, u, a) ==
    \E r \in BagToSet(items) : r.user_id = u /\ r.article_id = a

\* save_feed_items: insert one row per story, skipping the article ids the
\* user's feed already has
RECURSIVE save_feed_items(_, _, _, _)
save_feed_items(st, u, stories, i) ==
    IF i > Len(stories) THEN st
    ELSE IF UniqueViolation(st.items, u, stories[i])
         THEN save_feed_items(st, u, stories, i + 1)
         ELSE save_feed_items(
                  [items |-> st.items (+) SetToBag({FeedRow(u, stories[i])}),
                   added |-> st.added + 1],
                  u, stories, i + 1)

\* the clusters of one pipeline run over `input`
PipelineClusters(input) ==
    cluster_articles(input, Embeddings(input, <<>>), DefaultSimilarityThreshold)

\* its stories: one per cluster whose scoring succeeded, carrying the id of
\* the cluster's representative
PipelineStories(clusters, scored) ==
    {get_representative_article(clusters[k], published_at) : k \in scored}

\* an entry that never expires
CacheValidForever(entry, t) == entry.cached

\* the cache entry serves reads while it has not expired
CacheValid(entry, t) == entry.cached /\ t < entry.expires_at

\* the smart feed options: the cache is read unless the caller turns it off
UsesCache(force_refresh, use_cache) == use_cache /\ ~force_refresh

\* keeping last_seen_published_at where it was
AdvanceLastSeenNever(seen, fetched) == seen

\* last_seen_published_at after a refresh that observed `fetched`
AdvanceLastSeen(seen, fetched) ==
    MaxOf({seen} \cup {published_at[a] : a \in fetched})

\* last_seen_published_at moved before the write was known to succeed
LastSeenAdvancedBeforeWrite(seen, fetched) == AdvanceLastSeen(seen, fetched)

\* PersistenceError: last_seen_published_at is not advanced
LastSeenOnPersistenceError(seen, fetched) == seen

\* a failed fetch that throws the user's cache entry away
CacheDroppedOnCollectionError(entry) == NoCache

\* CollectionError: the prior cache entry is kept
CacheOnCollectionError(entry) == entry

\* the body of a failed operation's response: the error surfaced to the caller
ErrorBody(e) == [message |-> e]

\* the stories a refresh merges: those of the clusters that succeeded,
\* whether or not other clusters failed
MergedStories(stories, failed) == stories

\* taking the lock whoever holds it
LockFreeAlways(u) == TRUE

\* the user's refresh lock is free
LockFree(u) == refresh_lock[u] = 0

\* POST /api/personal/feed/refresh arrives
RefreshCall(p, u) ==
    /\ calls[p].pc = "idle"
    /\ calls' = [calls EXCEPT ![p] = [IdleCall EXCEPT !.pc = "waiting",
                                         !.op = "refresh", !.user = u]]
    /\ UNCHANGED <<now, published_at, feed_items, feed_cache, last_seen,
                   refresh_lock, last_refresh, response>>

\* GET /api/personal/feed/smart: the cached payload, or a refresh
SmartFetch(p, u, force_refresh, use_cache) ==
    /\ calls[p].pc = "idle"
    /\ LET valid == CacheValid(feed_cache[u], now)
           reads == UsesCache(force_refresh, use_cache)
       IN IF reads /\ valid
          THEN /\ response' = [NoResponse EXCEPT !.op = "smart_fetch", !.user = u,
                                  !.status = "ok",
                                  !.payload = feed_cache[u].feed_data,
                                  !.from_cache = TRUE, !.at = now,
                                  !.cache_expires_at = feed_cache[u].expires_at]
               /\ calls' = calls
          ELSE /\ calls' = [calls EXCEPT ![p] =
                     [IdleCall EXCEPT !.pc = "waiting", !.op = "smart_fetch",
                                      !.user = u, !.forced = ~reads,
                                      !.called_at = now,
                                      !.cache_expires_at = feed_cache[u].expires_at]]
               /\ response' = response
    /\ UNCHANGED <<now, published_at, feed_items, feed_cache, last_seen,
                   refresh_lock, last_refresh>>

\* refresh takes the user's lock and asks the collector for the articles
\* published after last_seen_published_at
FetchOk(p) ==
    /\ calls[p].pc = "waiting"
    /\ LockFree(calls[p].user)
    /\ refresh_lock' = [refresh_lock EXCEPT ![calls[p].user] = p]
    /\ calls' = [calls EXCEPT ![p].pc = "merging",
                              ![p].fetched = fetch(last_seen[calls[p].user]),
                              ![p].coll = Cardinality(CollectorArticles)]
    /\ UNCHANGED <<now, published_at, feed_items, feed_cache, last_seen,
                   last_refresh, response>>

\* CollectionError: the fetch is aborted and the call fails
FetchFails(p) ==
    /\ calls[p].pc = "waiting"
    /\ LockFree(calls[p].user)
    /\ calls' = [calls EXCEPT ![p] = IdleCall]
    /\ feed_cache' = [feed_cache EXCEPT ![calls[p].user] = CacheOnCollectionError(@)]
    /\ response' = [NoResponse EXCEPT !.op = calls[p].op, !.user = calls[p].user,
                                      !.status = "failed", !.at = now,
                                      !.body = ErrorBody("CollectionError"),
                                      !.feed_before = UserFeed(feed_items, calls[p].user)]
    /\ UNCHANGED <<now, published_at, feed_items, last_seen,
                   refresh_lock, last_refresh>>

\* refresh runs the fetched articles through the pipeline (the clusters in
\* `scored` are scored, the others fail), merges the stories, advances
\* last_seen_published_at, rewrites the cache, releases the lock and answers
Merge(p, scored) ==
    /\ calls[p].pc = "merging"
    /\ LET u == calls[p].user
           input == SeqOfSet(calls[p].fetched)
           clusters == PipelineClusters(input)
           stories == PipelineStories(clusters, scored)
           failed == Len(clusters) - Cardinality(scored)
           saved == save_feed_items([items |-> feed_items, added |-> 0], u,
                                    SeqOfSet(MergedStories(stories, failed)), 1)
       IN /\ scored \subseteq DOMAIN clusters
          /\ feed_items' = saved.items
          /\ last_seen' = [last_seen EXCEPT ![u] =
                              AdvanceLastSeen(last_seen[u], calls[p].fetched)]
          /\ feed_cache' = [feed_cache EXCEPT ![u] =
                [cached |-> TRUE, cached_at |-> now,
                 expires_at |-> now + cache_ttl_minutes,
                 feed_data |-> UserFeed(saved.items, u)]]
          /\ last_refresh' = [last_refresh EXCEPT ![u] = calls[p].coll]
          /\ refresh_lock' = [refresh_lock EXCEPT ![u] = 0]
          /\ response' =
                [op |-> calls[p].op, user |-> u, status |-> "ok",
                 body |-> RefreshFeedResponse(saved.added, UserFeed(saved.items, u)),
                 payload |-> UserFeed(saved.items, u),
                 from_cache |-> FALSE, at |-> now, cache_expires_at |-> 0,
                 feed_before |-> UserFeed(feed_items, u),
                 ok_stories |-> stories,
                 failed_clusters |-> failed,
                 no_new |-> (last_refresh[u] = calls[p].coll)]
    /\ calls' = [calls EXCEPT ![p] = IdleCall]
    /\ UNCHANGED <<now, published_at>>

\* PersistenceError: the store fails, nothing is written, the call fails
MergeFails(p) ==
    /\ calls[p].pc = "merging"
    /\ refresh_lock' = [refresh_lock EXCEPT ![calls[p].user] = 0]
    /\ calls' = [calls EXCEPT ![p] = IdleCall]
    /\ last_seen' = [last_seen EXCEPT ![calls[p].user] =
                        LastSeenOnPersistenceError(@, calls[p].fetched)]
    /\ response' = [NoResponse EXCEPT !.op = calls[p].op, !.user = calls[p].user,
                                      !.status = "failed", !.at = now,
                                      !.body = ErrorBody("PersistenceError"),
                                      !.feed_before = UserFeed(feed_items, calls[p].user)]
    /\ UNCHANGED <<now, published_at, feed_items, feed_cache, last_refresh>>

\* POST /api/personal/scan: a full scan of the collector's window, whose
\* stories are saved into the user's feed
Scan(u, scored) ==
    /\ LET input == SeqOfSet(CollectorArticles)
           clusters == PipelineClusters(input)
           saved == save_feed_items([items |-> feed_items, added |-> 0], u,
                                    SeqOfSet(PipelineStories(clusters, scored)), 1)
       IN /\ scored \subseteq DOMAIN clusters
          /\ scored # {}
          /\ feed_items' = saved.items
    /\ UNCHANGED <<now, published_at, feed_cache, last_seen, refresh_lock, calls,
                   last_refresh, response>>

\* the collector picks up the next new article
Publish(a) ==
    /\ published_at[a] = 0
    /\ \A b \in 1..(a - 1) : published_at[b] > 0
    /\ published_at' = [published_at EXCEPT ![a] = a]
    /\ UNCHANGED <<now, feed_items, feed_cache, last_seen, refresh_lock,
                   calls, last_refresh, response>>

\* the cache's time to live passes
Tick ==
    /\ now < 1 + MaxTicks * cache_ttl_minutes
    /\ now' = now + cache_ttl_minutes
    /\ UNCHANGED <<published_at, feed_items, feed_cache, last_seen,
                   refresh_lock, calls, last_refresh, response>>

\* ============================================================ 4.2, 4.3
\* Hotness Scorer and Adaptive Enrichment Selector: one pipeline run over
\* the clusters, each processed as an independent task

\* what the judgment service can answer as overall hotness (hundredths):
\* in range below, at and above the threshold, out of range, and no number
\* at all (a response that does not follow the schema)
NoNumber == -1
JudgmentResponses == {deep_research_threshold - 1, deep_research_threshold,
                      82, 130, NoNumber}

\* schema / range validation of a judgment response: a bounded float
ValidResponse(r) == r # NoNumber /\ r >= 0 /\ r <= 100

\* an invalid response is retried once
max_retries == 1

\* a retry after every invalid response
MayRetryAlways(judgment_calls) == TRUE

\* the call just answered may be repeated if it was the first
MayRetry(judgment_calls) == judgment_calls <= max_retries

\* the external calls a run may have in flight at a time
max_concurrent_external_calls == 2

\* the list of returned tasks after the task of cluster c took a step
Returned(ret, c, task) == IF task.pc = "done" THEN Append(ret, c) ELSE ret

NewTask == [pc |-> "pending", judgment_calls |-> 0, overall |-> 0,
            draft |-> "none", sources |-> <<>>, research |-> "none",
            research_sources |-> <<>>, research_enriched |-> FALSE]

\* source URLs, by number: cluster c's article has URL c, and the research
\* service knows one URL more
ResearchOnlyUrl == MaxClusters + 1

\* source_urls of a story: the URLs of its cluster's articles
source_urls(c) == <<c>>

\* the source lists the research service can answer with for cluster c's
\* story: new URLs only, or the story's own article among them
ResearchResults(c) == {<<ResearchOnlyUrl>>, <<c, ResearchOnlyUrl>>}

\* the scorer sends the judgment request for a cluster
StartJudgment(c) ==
    /\ ~run_done
    /\ tasks[c].pc = "pending"
    /\ tasks' = [tasks EXCEPT ![c].pc = "judging",
                              ![c].judgment_calls = @ + 1]
    /\ UNCHANGED <<emitted, scoring_errors, run_done, returned>>

\* the judgment service answers: a valid response scores the cluster, an
\* invalid one is retried once and then is a ScoringError
JudgmentAnswers(c, r) ==
    /\ tasks[c].pc = "judging"
    /\ IF ValidResponse(r)
       THEN /\ tasks' = [tasks EXCEPT ![c].pc = "scored", ![c].overall = r,
                                      ![c].draft = "summary",
                                      ![c].sources = source_urls(c)]
            /\ UNCHANGED scoring_errors
       ELSE IF MayRetry(tasks[c].judgment_calls)
       THEN /\ tasks' = [tasks EXCEPT ![c].pc = "pending"]
            /\ UNCHANGED scoring_errors
       ELSE /\ tasks' = [tasks EXCEPT ![c].pc = "failed"]
            /\ scoring_errors' = scoring_errors + 1
    /\ UNCHANGED <<emitted, run_done, returned>>

\* the judgment call times out: a ScoringError for this cluster
JudgmentTimeout(c) ==
    /\ tasks[c].pc = "judging"
    /\ tasks' = [tasks EXCEPT ![c].pc = "failed"]
    /\ scoring_errors' = scoring_errors + 1
    /\ UNCHANGED <<emitted, run_done, returned>>

\* Selective Draft Generation: Hotness >= 0.7 gets the full draft and deep
\* research, Hotness < 0.7 the simple summary
\* escalation of the stories strictly above the threshold only
EscalatesAbove(overall) == overall > deep_research_threshold

Escalates(overall) == overall >= deep_research_threshold

\* a story marked as deep-researched as soon as it is escalated
EscalatedTaskMarkedEnriched(task) ==
    [task EXCEPT !.pc = "researching", !.draft = "full",
                 !.research_enriched = TRUE]

\* an escalated story gets its full draft and goes to deep research
EscalatedTask(task) == [task EXCEPT !.pc = "researching", !.draft = "full"]

Select(c) ==
    /\ tasks[c].pc = "scored"
    /\ LET task == IF Escalates(tasks[c].overall) THEN EscalatedTask(tasks[c])
                   ELSE [tasks[c] EXCEPT !.pc = "done"]
       IN /\ tasks' = [tasks EXCEPT ![c] = task]
          /\ returned' = Returned(returned, c, task)
    /\ UNCHANGED <<emitted, scoring_errors, run_done>>

\* story.sources.extend(additional_sources)
extend(sources, additional_sources) == sources \o additional_sources

\* enrich_story returns: the report is appended to the draft, the research
\* sources are appended to the story's sources and the story is marked as
\* deep-researched
EnrichStory(c, additional_sources) ==
    /\ tasks[c].pc = "researching"
    /\ LET task == [tasks[c] EXCEPT !.pc = "done",
                                    !.draft = "full+research",
                                    !.sources = extend(@, additional_sources),
                                    !.research = "ok",
                                    !.research_sources = additional_sources,
                                    !.research_enriched = TRUE]
       IN /\ tasks' = [tasks EXCEPT ![c] = task]
          /\ returned' = Returned(returned, c, task)
    /\ UNCHANGED <<emitted, scoring_errors, run_done>>

\* a story thrown away when its research fails
DroppedOnResearchError(task) == [task EXCEPT !.pc = "failed", !.research = "failed"]

\* ResearchError: the story keeps its un-enriched full draft
AfterResearchError(task) == [task EXCEPT !.pc = "done", !.research = "failed"]

ResearchFails(c) ==
    /\ tasks[c].pc = "researching"
    /\ tasks' = [tasks EXCEPT ![c] = AfterResearchError(@)]
    /\ returned' = Returned(returned, c, AfterResearchError(tasks[c]))
    /\ UNCHANGED <<emitted, scoring_errors, run_done>>

Story(c) == [cluster |-> c, overall |-> tasks[c].overall,
             draft |-> tasks[c].draft, sources |-> tasks[c].sources,
             research_enriched |-> tasks[c].research_enriched]

\* a run that gives up its output when some cluster failed
EmittedClustersNoneOnFailure(t) ==
    IF \E c \in ClusterIds : t[c].pc = "failed" THEN {}
    ELSE {c \in ClusterIds : t[c].pc = "done"}

\* analyze_hotness answers None for a cluster whose scoring failed; the run
\* leaves that cluster out and keeps the others
EmittedClusters(t) == {c \in ClusterIds : t[c].pc = "done"}

\* the results in the order the tasks returned
as_completed(ret) == ret

\* asyncio.gather: the results in the order the clusters were passed in
gather(ret) == [i \in 1..MaxClusters |-> i]

Position(order, x) == CHOOSE i \in DOMAIN order : order[i] = x

\* x sorts before y: hotter, or as hot and earlier in `order`
Precedes(t, order, x, y) ==
    \/ t[x].overall > t[y].overall
    \/ /\ t[x].overall = t[y].overall
       /\ Position(order, x) < Position(order, y)

\* the stable sort by overall hotness, descending, of the clusters S listed
\* in `order`
SortByHotness(S, t, order) ==
    [i \in 1..Cardinality(S) |->
        CHOOSE c \in S : Cardinality({y \in S : Precedes(t, order, y, c)}) = i - 1]

Settled(t) == \A c \in ClusterIds : t[c].pc \in {"done", "failed"}

\* every task has returned: the run emits the stories
Emit ==
    /\ ~run_done
    /\ Settled(tasks)
    /\ LET sorted == SortByHotness(EmittedClusters(tasks), tasks, gather(returned))
       IN emitted' = [i \in DOMAIN sorted |-> Story(sorted[i])]
    /\ run_done' = TRUE
    /\ UNCHANGED <<tasks, scoring_errors, returned>>

\* =================================================================== 4.5
\* Learning Engine: the interest weights of one user

\* what an interaction row can hold
InteractionTypes == {"view", "click", "like", "dislike", "save"}
ViewDurations == {0, 10, 30}
Interactions ==
    [interaction_type : InteractionTypes,
     view_duration_seconds : ViewDurations,
     clicked_read_more : BOOLEAN,
     matched_keywords : SUBSET Keywords \ {{}}]
NoInteraction == [interaction_type |-> "none", view_duration_seconds |-> 0,
                  clicked_read_more |-> FALSE, matched_keywords |-> {}]

\* the learning rates a deployment can configure (tenths): 0.1, 0.5, 2.0
LearningRates == {1, 5, 20}

\* clamp(x, lo, hi)
clamp(x, lo, hi) == IF x < lo THEN lo ELSE IF x > hi THEN hi ELSE x

\* view time: 0-10s = 0.1, 10-30s = 0.5, 30s+ = 1.0 (tenths)
ViewScore(seconds) == IF seconds < 10 THEN 1 ELSE IF seconds < 30 THEN 5 ELSE 10

\* the deltas of like and dislike taken for each other
TypeDeltaSwapped(type) ==
    IF type = "like" THEN 0 - 10
    ELSE IF type = "save" THEN 4
    ELSE IF type = "dislike" THEN 5
    ELSE 0

\* like = +0.5, save = +0.4, dislike = -1.0 (tenths)
TypeDelta(type) ==
    IF type = "like" THEN 5
    ELSE IF type = "save" THEN 4
    ELSE IF type = "dislike" THEN 0 - 10
    ELSE 0

\* calculate_article_engagement: the factors added up and clamped to [-1, 1]
\* (tenths)
calculate_article_engagement(i) ==
    clamp(ViewScore(i.view_duration_seconds)
          + (IF i.clicked_read_more THEN 3 ELSE 0)
          + TypeDelta(i.interaction_type),
          0 - 10, 10)

\* a nudge that is clamped at the ceiling only
NudgeWithoutFloor(weight, rate, engagement_score) ==
    IF weight + rate * engagement_score > 100 THEN 100
    ELSE weight + rate * engagement_score

\* weight <- clamp(weight + learning_rate * engagement_score, 0, 1)
\* (weight in hundredths, rate and score in tenths)
Nudge(weight, rate, engagement_score) ==
    clamp(weight + rate * engagement_score, 0, 100)

\* a decay of the weights no interaction matched
UnmatchedDecays(weight) == clamp(weight - 1, 0, 100)

\* a keyword no interaction matched keeps its weight: no decay
Unmatched(weight) == weight

\* update_weights applies one interaction of the lookback window: every
\* keyword the interacted-with story matched is nudged and counted
update_weights(i) ==
    /\ \A k \in Keywords : engagement_count[k] < MaxInteractions
    /\ weights' = [k \in Keywords |->
                      IF k \in i.matched_keywords
                      THEN Nudge(weights[k], learning_rate,
                                 calculate_article_engagement(i))
                      ELSE Unmatched(weights[k])]
    /\ engagement_count' = [k \in Keywords |->
                               IF k \in i.matched_keywords
                               THEN engagement_count[k] + 1
                               ELSE engagement_count[k]]
    /\ interaction' = i
    /\ UNCHANGED learning_rate

\* ========================================================== personal page
\* The personal news page of the web client and the server state it shows

FilterModes == {"all", "unread", "liked", "saved"}
ViewModes == {"persisted", "new"}
FlagNames == {"is_liked", "is_disliked", "is_saved"}
Requests == 1..MaxRequests

\* result.new_items_count of a getNewItemsCount response
NewItemsCounts == {0, 1}

\* the user's one article at the server before it is in the feed
NoItem == [in_feed |-> FALSE, is_liked |-> FALSE, is_disliked |-> FALSE,
           is_saved |-> FALSE]

IdleLoad == [pc |-> "idle", filter |-> "all", seq |-> 0]
IdleRefresh == [pc |-> "idle", outcome |-> "none", filter |-> "all", seq |-> 0]
IdleCount == [pc |-> "idle", saw_banner |-> FALSE, epoch |-> 0]
IdleToggle == [pc |-> "idle", flag |-> "is_liked", value |-> FALSE,
               filter |-> "all", seq |-> 0]

\* unread_only / liked_only / saved_only; no article is marked read here
Matches(item, filter) ==
    CASE filter = "liked" -> item.is_liked
      [] filter = "saved" -> item.is_saved
      [] OTHER -> TRUE

\* result.items of getUserFeed for the options of a filter
getUserFeed(item, filter) ==
    IF item.in_feed /\ Matches(item, filter)
    THEN <<[article_id |-> 1, is_liked |-> item.is_liked,
            is_disliked |-> item.is_disliked, is_saved |-> item.is_saved]>>
    ELSE <<>>

\* {showNewItemsBanner && newItemsCount > 0 && (...)}
BannerVisible == showNewItemsBanner /\ newItemsCount > 0

\* the polling effect is set up again when isLoading or isRefreshing change,
\* and its checkForNewItems sees the showNewItemsBanner of that render
EffectBanner(loading, refreshing, banner) ==
    IF loading # isLoading \/ refreshing # isRefreshing THEN banner
    ELSE polling_banner

\* a refresh whose refreshFeed failed, carried on as if it had succeeded
RefreshFailedContinues(r) ==
    [r EXCEPT !.pc = "getUserFeed", !.outcome = "failed"]

\* catch (err) { throw err } finally { setIsRefreshing(false) }
RefreshFailed(r) == [IdleRefresh EXCEPT !.outcome = "failed"]

\* handleIncrementalRefresh up to its first await
StartRefresh(h) ==
    /\ refreshes[h].pc = "idle"
    /\ user_actions < MaxUserActions
    /\ user_actions' = user_actions + 1
    /\ refreshes' = [refreshes EXCEPT ![h] =
                        [pc |-> "refreshFeed", outcome |-> "none",
                         filter |-> filterMode, seq |-> 0]]
    /\ isRefreshing' = TRUE
    /\ polling_banner' = EffectBanner(isLoading, TRUE, showNewItemsBanner)
    /\ UNCHANGED <<isLoading, showNewItemsBanner, newItemsCount, viewMode,
                   filterMode, persistedFeed, persisted_seq, persisted_filter, stored_item,
                   request_seq, scan, loads, counts, toggles, mark_checked,
                   refresh_epoch, hidden_by_refresh>>

\* the header button: disabled={isRefreshing || isLoading}
HeaderRefresh(h) ==
    /\ ~(isRefreshing \/ isLoading)
    /\ StartRefresh(h)

\* the new-items banner: onClick={async () => { await handleIncrementalRefresh() }}
BannerClick(h) ==
    /\ BannerVisible
    /\ StartRefresh(h)

\* the button of the empty feed: disabled={isRefreshing}
EmptyStateRefresh(h) ==
    /\ viewMode = "persisted" /\ ~isLoading
    /\ persistedFeed = <<>> /\ filterMode = "all"
    /\ ~isRefreshing
    /\ StartRefresh(h)

\* handleTouchMove starts a pull only while nothing runs, and handleTouchEnd
\* of a pull longer than 80 calls handleIncrementalRefresh
PullToRefresh(h) ==
    /\ ~isRefreshing /\ ~isLoading
    /\ StartRefresh(h)

\* refreshFeed answers; the server may have added the article to the feed;
\* the handler goes on to loadPersistedFeed
RefreshFeedOk(h, added) ==
    /\ refreshes[h].pc = "refreshFeed"
    /\ stored_item' = IF added THEN [stored_item EXCEPT !.in_feed = TRUE]
                      ELSE stored_item
    /\ request_seq' = request_seq + 1
    /\ refreshes' = [refreshes EXCEPT ![h].pc = "getUserFeed",
                                      ![h].outcome = "ok",
                                      ![h].seq = request_seq + 1]
    /\ UNCHANGED <<isLoading, isRefreshing, showNewItemsBanner, newItemsCount,
                   viewMode, filterMode, persistedFeed, persisted_seq, persisted_filter, scan,
                   loads, counts, toggles, mark_checked, refresh_epoch,
                   hidden_by_refresh, polling_banner, user_actions>>

\* refreshFeed fails: catch, rethrow, finally
RefreshFeedFails(h) ==
    /\ refreshes[h].pc = "refreshFeed"
    /\ LET r == RefreshFailed(refreshes[h])
           refreshing == IF r.pc = "idle" THEN FALSE ELSE isRefreshing
       IN /\ refreshes' = [refreshes EXCEPT ![h] =
                              IF r.pc = "idle" THEN r
                              ELSE [r EXCEPT !.seq = request_seq + 1]]
          /\ request_seq' = IF r.pc = "idle" THEN request_seq
                            ELSE request_seq + 1
          /\ isRefreshing' = refreshing
          /\ polling_banner' =
                EffectBanner(isLoading, refreshing, showNewItemsBanner)
    /\ UNCHANGED <<isLoading, showNewItemsBanner, newItemsCount, viewMode,
                   filterMode, persistedFeed, persisted_seq, persisted_filter, stored_item,
                   scan, loads, counts, toggles, mark_checked, refresh_epoch,
                   hidden_by_refresh, user_actions>>

\* what setPersistedFeed leaves on the page when a getUserFeed call settles:
\* the response, or what was there if the call failed
Displayed(ok, filter) ==
    IF ok THEN getUserFeed(stored_item, filter) ELSE persistedFeed

DisplayedSeq(ok, seq) == IF ok THEN seq ELSE persisted_seq

DisplayedFilter(ok, filter) == IF ok THEN filter ELSE persisted_filter

\* loadPersistedFeed, loadStats and loadFeedMetadata have settled: the banner
\* is reset and markFeedChecked is sent
RefreshReloaded(h, ok) ==
    /\ refreshes[h].pc = "getUserFeed"
    /\ persistedFeed' = Displayed(ok, refreshes[h].filter)
    /\ persisted_seq' = DisplayedSeq(ok, refreshes[h].seq)
    /\ persisted_filter' = DisplayedFilter(ok, refreshes[h].filter)
    /\ showNewItemsBanner' = FALSE
    /\ newItemsCount' = 0
    /\ hidden_by_refresh' = BannerVisible
    /\ refresh_epoch' = refresh_epoch + 1
    /\ mark_checked' = mark_checked + 1
    /\ refreshes' = [refreshes EXCEPT ![h].pc = "markFeedChecked"]
    /\ UNCHANGED <<isLoading, isRefreshing, viewMode, filterMode, stored_item,
                   request_seq, scan, loads, counts, toggles, polling_banner,
                   user_actions>>

\* markFeedChecked settles, either way: finally { setIsRefreshing(false) }
MarkCheckedReturns(h) ==
    /\ refreshes[h].pc = "markFeedChecked"
    /\ refreshes' = [refreshes EXCEPT ![h] =
                        [IdleRefresh EXCEPT !.outcome = refreshes[h].outcome]]
    /\ isRefreshing' = FALSE
    /\ polling_banner' = EffectBanner(isLoading, FALSE, showNewItemsBanner)
    /\ UNCHANGED <<isLoading, showNewItemsBanner, newItemsCount, viewMode,
                   filterMode, persistedFeed, persisted_seq, persisted_filter, stored_item,
                   request_seq, scan, loads, counts, toggles, mark_checked,
                   refresh_epoch, hidden_by_refresh, user_actions>>

\* handleScan from the header button: disabled={isLoading || isRefreshing}
HandleScan ==
    /\ ~(isLoading \/ isRefreshing)
    /\ scan.pc = "idle"
    /\ user_actions < MaxUserActions
    /\ user_actions' = user_actions + 1
    /\ scan' = [pc |-> "scanPersonalNews", filter |-> filterMode, seq |-> 0]
    /\ isLoading' = TRUE
    /\ polling_banner' = EffectBanner(TRUE, isRefreshing, showNewItemsBanner)
    /\ UNCHANGED <<isRefreshing, showNewItemsBanner, newItemsCount, viewMode,
                   filterMode, persistedFeed, persisted_seq, persisted_filter, stored_item,
                   request_seq, refreshes, loads, counts, toggles,
                   mark_checked, refresh_epoch, hidden_by_refresh>>

\* scanPersonalNews answers: setViewMode('new'), then loadPersistedFeed
ScanOk(added) ==
    /\ scan.pc = "scanPersonalNews"
    /\ stored_item' = IF added THEN [stored_item EXCEPT !.in_feed = TRUE]
                      ELSE stored_item
    /\ viewMode' = "new"
    /\ request_seq' = request_seq + 1
    /\ scan' = [scan EXCEPT !.pc = "getUserFeed", !.seq = request_seq + 1]
    /\ UNCHANGED <<isLoading, isRefreshing, showNewItemsBanner, newItemsCount,
                   filterMode, persistedFeed, persisted_seq, persisted_filter, refreshes, loads,
                   counts, toggles, mark_checked, refresh_epoch,
                   hidden_by_refresh, polling_banner, user_actions>>

\* the scan's reloads have settled: finally { setIsLoading(false) }
ScanReloaded(ok) ==
    /\ scan.pc = "getUserFeed"
    /\ persistedFeed' = Displayed(ok, scan.filter)
    /\ persisted_seq' = DisplayedSeq(ok, scan.seq)
    /\ persisted_filter' = DisplayedFilter(ok, scan.filter)
    /\ scan' = IdleLoad
    /\ isLoading' = FALSE
    /\ polling_banner' = EffectBanner(FALSE, isRefreshing, showNewItemsBanner)
    /\ UNCHANGED <<isRefreshing, showNewItemsBanner, newItemsCount, viewMode,
                   filterMode, stored_item, request_seq, refreshes, loads,
                   counts, toggles, mark_checked, refresh_epoch,
                   hidden_by_refresh, user_actions>>

\* scanPersonalNews fails: setError, finally { setIsLoading(false) }
ScanFails ==
    /\ scan.pc = "scanPersonalNews"
    /\ scan' = IdleLoad
    /\ isLoading' = FALSE
    /\ polling_banner' = EffectBanner(FALSE, isRefreshing, showNewItemsBanner)
    /\ UNCHANGED <<isRefreshing, showNewItemsBanner, newItemsCount, viewMode,
                   filterMode, persistedFeed, persisted_seq, persisted_filter, stored_item,
                   request_seq, refreshes, loads, counts, toggles,
                   mark_checked, refresh_epoch, hidden_by_refresh,
                   user_actions>>

\* the interval callback: if (!isLoading && !isRefreshing) checkForNewItems()
Poll(k) ==
    /\ ~isLoading /\ ~isRefreshing
    /\ counts[k].pc = "idle"
    /\ counts' = [counts EXCEPT ![k] =
                     [pc |-> "getNewItemsCount", saw_banner |-> polling_banner,
                      epoch |-> refresh_epoch]]
    /\ UNCHANGED <<isLoading, isRefreshing, showNewItemsBanner, newItemsCount,
                   viewMode, filterMode, persistedFeed, persisted_seq, persisted_filter,
                   stored_item, request_seq, refreshes, scan, loads, toggles,
                   mark_checked, refresh_epoch, hidden_by_refresh,
                   polling_banner, user_actions>>

\* getNewItemsCount answers n: setNewItemsCount(n), and the banner is shown
\* if n > 0 and the call's closure saw it hidden
CountReturns(k, n) ==
    /\ counts[k].pc = "getNewItemsCount"
    /\ newItemsCount' = n
    /\ showNewItemsBanner' = IF n > 0 /\ ~counts[k].saw_banner THEN TRUE
                             ELSE showNewItemsBanner
    /\ hidden_by_refresh' = (hidden_by_refresh /\ ~BannerVisible')
    /\ counts' = [counts EXCEPT ![k] = IdleCount]
    /\ UNCHANGED <<isLoading, isRefreshing, viewMode, filterMode,
                   persistedFeed, persisted_seq, persisted_filter, stored_item, request_seq,
                   refreshes, scan, loads, toggles, mark_checked,
                   refresh_epoch, polling_banner, user_actions>>

\* getNewItemsCount fails: the error is logged
CountFails(k) ==
    /\ counts[k].pc = "getNewItemsCount"
    /\ counts' = [counts EXCEPT ![k] = IdleCount]
    /\ UNCHANGED <<isLoading, isRefreshing, showNewItemsBanner, newItemsCount,
                   viewMode, filterMode, persistedFeed, persisted_seq, persisted_filter,
                   stored_item, request_seq, refreshes, scan, loads, toggles,
                   mark_checked, refresh_epoch, hidden_by_refresh,
                   polling_banner, user_actions>>

\* the effect on [filterMode, viewMode]: loadPersistedFeed in the persisted
\* view, in request slot l
FeedEffect(l, view, filter) ==
    IF view = "persisted"
    THEN /\ loads[l].pc = "idle"
         /\ request_seq' = request_seq + 1
         /\ loads' = [loads EXCEPT ![l] =
                         [pc |-> "getUserFeed", filter |-> filter,
                          seq |-> request_seq + 1]]
    ELSE /\ l = 1
         /\ UNCHANGED <<request_seq, loads>>

\* a filter button: setFilterMode(mode.key)
SetFilterMode(l, m) ==
    /\ viewMode = "persisted"
    /\ m # filterMode
    /\ user_actions < MaxUserActions
    /\ user_actions' = user_actions + 1
    /\ filterMode' = m
    /\ FeedEffect(l, viewMode, m)
    /\ UNCHANGED <<isLoading, isRefreshing, showNewItemsBanner, newItemsCount,
                   viewMode, persistedFeed, persisted_seq, persisted_filter, stored_item,
                   refreshes, scan, counts, toggles, mark_checked,
                   refresh_epoch, hidden_by_refresh, polling_banner>>

\* a view tab: setViewMode(m)
SetViewMode(l, m) ==
    /\ m # viewMode
    /\ user_actions < MaxUserActions
    /\ user_actions' = user_actions + 1
    /\ viewMode' = m
    /\ FeedEffect(l, m, filterMode)
    /\ UNCHANGED <<isLoading, isRefreshing, showNewItemsBanner, newItemsCount,
                   filterMode, persistedFeed, persisted_seq, persisted_filter, stored_item,
                   refreshes, scan, counts, toggles, mark_checked,
                   refresh_epoch, hidden_by_refresh, polling_banner>>

\* the getUserFeed call of the effect settles
LoadReturns(l, ok) ==
    /\ loads[l].pc = "getUserFeed"
    /\ persistedFeed' = Displayed(ok, loads[l].filter)
    /\ persisted_seq' = DisplayedSeq(ok, loads[l].seq)
    /\ persisted_filter' = DisplayedFilter(ok, loads[l].filter)
    /\ loads' = [loads EXCEPT ![l] = IdleLoad]
    /\ UNCHANGED <<isLoading, isRefreshing, showNewItemsBanner, newItemsCount,
                   viewMode, filterMode, stored_item, request_seq, refreshes,
                   scan, counts, toggles, mark_checked, refresh_epoch,
                   hidden_by_refresh, polling_banner, user_actions>>

\* onClick={() => onLike(item.article_id, item.is_liked)} and
\* toggleLike(userId, articleId, !currentlyLiked): the opposite of the flag
\* of the card's item
OppositeOfDisplayed(flag) == ~persistedFeed[1][flag]

\* a click on like, dislike or save of the card of the persisted feed
Click(t, flag) ==
    /\ viewMode = "persisted" /\ ~isLoading
    /\ persistedFeed # <<>>
    /\ toggles[t].pc = "idle"
    /\ user_actions < MaxUserActions
    /\ user_actions' = user_actions + 1
    /\ toggles' = [toggles EXCEPT ![t] =
                      [pc |-> "toggle", flag |-> flag,
                       value |-> OppositeOfDisplayed(flag),
                       filter |-> filterMode, seq |-> 0]]
    /\ UNCHANGED <<isLoading, isRefreshing, showNewItemsBanner, newItemsCount,
                   viewMode, filterMode, persistedFeed, persisted_seq, persisted_filter,
                   stored_item, request_seq, refreshes, scan, loads, counts,
                   mark_checked, refresh_epoch, hidden_by_refresh,
                   polling_banner>>

\* the toggle request answers: the server has stored the flag, and the
\* handler goes on to loadPersistedFeed
ToggleOk(t) ==
    /\ toggles[t].pc = "toggle"
    /\ stored_item' = [stored_item EXCEPT ![toggles[t].flag] = toggles[t].value]
    /\ request_seq' = request_seq + 1
    /\ toggles' = [toggles EXCEPT ![t].pc = "getUserFeed",
                                  ![t].seq = request_seq + 1]
    /\ UNCHANGED <<isLoading, isRefreshing, showNewItemsBanner, newItemsCount,
                   viewMode, filterMode, persistedFeed, persisted_seq, persisted_filter,
                   refreshes, scan, loads, counts, mark_checked,
                   refresh_epoch, hidden_by_refresh, polling_banner,
                   user_actions>>

\* the toggle request fails: the error is logged
ToggleFails(t) ==
    /\ toggles[t].pc = "toggle"
    /\ toggles' = [toggles EXCEPT ![t] = IdleToggle]
    /\ UNCHANGED <<isLoading, isRefreshing, showNewItemsBanner, newItemsCount,
                   viewMode, filterMode, persistedFeed, persisted_seq, persisted_filter,
                   stored_item, request_seq, refreshes, scan, loads, counts,
                   mark_checked, refresh_epoch, hidden_by_refresh,
                   polling_banner, user_actions>>

\* the handler's loadPersistedFeed settles
ToggleReloaded(t, ok) ==
    /\ toggles[t].pc = "getUserFeed"
    /\ persistedFeed' = Displayed(ok, toggles[t].filter)
    /\ persisted_seq' = DisplayedSeq(ok, toggles[t].seq)
    /\ persisted_filter' = DisplayedFilter(ok, toggles[t].filter)
    /\ toggles' = [toggles EXCEPT ![t] = IdleToggle]
    /\ UNCHANGED <<isLoading, isRefreshing, showNewItemsBanner, newItemsCount,
                   viewMode, filterMode, stored_item, request_seq, refreshes,
                   scan, loads, counts, mark_checked, refresh_epoch,
                   hidden_by_refresh, polling_banner, user_actions>>

\* ====================================================== onboarding wizard
\* The onboarding page of the web client

ONBOARDING_STEPS == <<"welcome", "presets", "customize", "complete">>

\* selectedPreset = null
NoPreset == 0

\* the rows of onboarding_presets the server can answer with: categories,
\* keywords and sources each default to '[]'
PresetCatalog ==
    <<[categories |-> {1}, keywords |-> <<1>>, sources |-> {1}],
      [categories |-> {1}, keywords |-> <<>>, sources |-> {1}],
      [categories |-> {1}, keywords |-> <<1, 2>>, sources |-> {}]>>

PresetKeys == DOMAIN PresetCatalog

\* a Finish button that is never disabled
canCompleteAlways(categories, keywords, sources) == TRUE

\* const canComplete = selectedCategories.length > 0 &&
\*     selectedKeywords.length > 0 && selectedSources.length > 0
canComplete(categories, keywords, sources) ==
    categories # {} /\ keywords # <<>> /\ sources # {}

\* const canProceedToCustomize = selectedPreset !== null
canProceedToCustomize == selectedPreset # NoPreset

\* selectedKeywords.filter(k => k !== keyword)
RECURSIVE filter(_, _)
filter(keywords, keyword) ==
    IF keywords = <<>> THEN <<>>
    ELSE IF Head(keywords) = keyword THEN filter(Tail(keywords), keyword)
    ELSE <<Head(keywords)>> \o filter(Tail(keywords), keyword)

\* getOnboardingPresets answers: setPresets(data)
LoadPresets ==
    /\ ~presets_loaded
    /\ presets_loaded' = TRUE
    /\ UNCHANGED <<currentStep, selectedPreset, selectedCategories,
                   selectedKeywords, selectedSources, completing, completions,
                   left_page>>

\* a navigation button: setCurrentStep(to) on step `from`, if not disabled
Navigate(from, to, enabled) ==
    /\ ~left_page
    /\ currentStep = from
    /\ enabled
    /\ currentStep' = to
    /\ UNCHANGED <<presets_loaded, selectedPreset, selectedCategories,
                   selectedKeywords, selectedSources, completing, completions,
                   left_page>>

\* a preset card on the presets step
handlePresetSelect(p) ==
    /\ ~left_page
    /\ currentStep = "presets"
    /\ presets_loaded
    /\ selectedPreset' = p
    /\ selectedCategories' = PresetCatalog[p].categories
    /\ selectedKeywords' = PresetCatalog[p].keywords
    /\ selectedSources' = PresetCatalog[p].sources
    /\ UNCHANGED <<currentStep, presets_loaded, completing, completions,
                   left_page>>

\* the keyword input of the customize step; empty text returns at once
handleAddKeyword(keyword) ==
    /\ ~left_page
    /\ currentStep = "customize"
    /\ Len(selectedKeywords) < MaxSelectedKeywords
    /\ selectedKeywords' = Append(selectedKeywords, keyword)
    /\ UNCHANGED <<currentStep, presets_loaded, selectedPreset,
                   selectedCategories, selectedSources, completing,
                   completions, left_page>>

\* the x of a keyword chip on the customize step
handleRemoveKeyword(keyword) ==
    /\ ~left_page
    /\ currentStep = "customize"
    /\ \E i \in DOMAIN selectedKeywords : selectedKeywords[i] = keyword
    /\ selectedKeywords' = filter(selectedKeywords, keyword)
    /\ UNCHANGED <<currentStep, presets_loaded, selectedPreset,
                   selectedCategories, selectedSources, completing,
                   completions, left_page>>

\* the button of the complete step, disabled={isLoading}: completeOnboarding
\* is sent with the selections
handleComplete ==
    /\ ~left_page
    /\ currentStep = "complete"
    /\ ~completing
    /\ Len(completions) < MaxCompletions
    /\ completing' = TRUE
    /\ completions' = Append(completions,
                             [preset_key |-> selectedPreset,
                              categories |-> selectedCategories,
                              keywords |-> selectedKeywords,
                              sources |-> selectedSources])
    /\ UNCHANGED <<currentStep, presets_loaded, selectedPreset,
                   selectedCategories, selectedKeywords, selectedSources,
                   left_page>>

\* completeOnboarding settles: router.push('/personal') if it succeeded, and
\* finally { setIsLoading(false) }
CompleteReturns(ok) ==
    /\ completing
    /\ completing' = FALSE
    /\ left_page' = ok
    /\ UNCHANGED <<currentStep, presets_loaded, selectedPreset,
                   selectedCategories, selectedKeywords, selectedSources,
                   completions>>

\* ---------------------------------------------------------- specifications

\* the personal page before it is mounted
PageIdle ==
    /\ isLoading = FALSE
    /\ isRefreshing = FALSE
    /\ showNewItemsBanner = FALSE
    /\ newItemsCount = 0
    /\ viewMode = "persisted"
    /\ filterMode = "all"
    /\ persistedFeed = <<>>
    /\ persisted_seq = 0
    /\ persisted_filter = "all"
    /\ stored_item = NoItem
    /\ request_seq = 0
    /\ refreshes = [h \in Requests |-> IdleRefresh]
    /\ scan = IdleLoad
    /\ loads = [l \in Requests |-> IdleLoad]
    /\ counts = [k \in Requests |-> IdleCount]
    /\ toggles = [t \in Requests |-> IdleToggle]
    /\ mark_checked = 0
    /\ refresh_epoch = 0
    /\ hidden_by_refresh = FALSE
    /\ polling_banner = FALSE
    /\ user_actions = 0

\* the onboarding page as its useState calls leave it
OnboardingIdle ==
    /\ currentStep = ONBOARDING_STEPS[1]
    /\ presets_loaded = FALSE
    /\ selectedPreset = NoPreset
    /\ selectedCategories = {}
    /\ selectedKeywords = <<>>
    /\ selectedSources = {}
    /\ completing = FALSE
    /\ completions = <<>>
    /\ left_page = FALSE


ClusterIdle ==
    /\ articles = <<>>
    /\ embedding_cache = <<>>
    /\ run = NoRun
    /\ prev_run = NoRun

RunIdle ==
    /\ tasks = [c \in ClusterIds |-> NewTask]
    /\ emitted = <<>>
    /\ scoring_errors = 0
    /\ run_done = FALSE
    /\ returned = <<>>

LearnIdle ==
    /\ weights = [k \in Keywords |-> DefaultWeight]
    /\ engagement_count = [k \in Keywords |-> 0]
    /\ learning_rate = 1
    /\ interaction = NoInteraction

FeedIdle ==
    /\ now = 1
    /\ published_at = [a \in FeedArticleIds |-> 0]
    /\ feed_items = EmptyBag
    /\ feed_cache = [u \in Users |-> NoCache]
    /\ last_seen = [u \in Users |-> 0]
    /\ refresh_lock = [u \in Users |-> 0]
    /\ calls = [p \in Calls |-> IdleCall]
    /\ last_refresh = [u \in Users |-> -1]
    /\ response = NoResponse


ClusterInit ==
    /\ articles \in {SeqOfSet(S) : S \in SUBSET ArticleIds \ {{}}}
    /\ embed_service \in [ArticleIds -> EmbValues \cup {EmbeddingError}]
    /\ embedding_cache = <<>>
    /\ run = NoRun
    /\ prev_run = NoRun
    /\ FeedIdle
    /\ RunIdle
    /\ LearnIdle
    /\ PageIdle
    /\ OnboardingIdle

\* One clustering run over the input list at a threshold.
ClusterArticles(thr) ==
    /\ LET emb == Embeddings(articles, embedding_cache)
       IN /\ run' = [thr |-> thr, input |-> articles, emb |-> emb,
                     clusters |-> cluster_articles(articles, emb, thr),
                     errors |-> EmbeddingErrors(emb)]
          /\ embedding_cache' =
                [a \in DOMAIN embedding_cache \cup
                       {articles[i] : i \in {k \in DOMAIN emb : emb[k] # EmbeddingError}}
                   |-> get_embedding(embedding_cache, a)]
    /\ prev_run' = run
    /\ UNCHANGED <<articles, embed_service, fvars, rvars, lvars, pvars, ovars>>

ClusterNext == \E thr \in Thresholds : ClusterArticles(thr)

SpecCluster == ClusterInit /\ [][ClusterNext]_vars

\* what the embedding service answers for the articles of the feed: no two
\* consecutive articles are near-duplicates
FeedEmbedding == [a \in ArticleIds \cup FeedArticleIds |->
                     IF a % 2 = 0 THEN <<1, 0>> ELSE <<1, 1>>]

FeedInit ==
    /\ ClusterIdle
    /\ embed_service = FeedEmbedding
    /\ FeedIdle
    /\ RunIdle
    /\ LearnIdle
    /\ PageIdle
    /\ OnboardingIdle

\* one client's refreshes and scans for all users, one request at a time
FeedNext ==
    \/ \E u \in Users : RefreshCall(1, u)
    \/ FetchOk(1)
    \/ FetchFails(1)
    \/ \E scored \in SUBSET FeedArticleIds : Merge(1, scored)
    \/ MergeFails(1)
    \/ \E u \in Users, scored \in SUBSET FeedArticleIds : Scan(u, scored)
    \/ \E a \in FeedArticleIds : Publish(a)

SpecFeed == FeedInit /\ [][FeedNext /\ UNCHANGED <<cvars, rvars, lvars, pvars, ovars>>]_vars

\* overlapping refreshes of one user
RaceNext ==
    \/ \E p \in Calls : RefreshCall(p, 1)
    \/ \E p \in Calls : FetchOk(p)
    \/ \E p \in Calls : FetchFails(p)
    \/ \E p \in Calls, scored \in SUBSET FeedArticleIds : Merge(p, scored)
    \/ \E p \in Calls : MergeFails(p)
    \/ \E scored \in SUBSET FeedArticleIds : Scan(1, scored)
    \/ \E a \in FeedArticleIds : Publish(a)

SpecRefreshRace == FeedInit /\ [][RaceNext /\ UNCHANGED <<cvars, rvars, lvars, pvars, ovars>>]_vars

\* one client's smart feed over time
SmartNext ==
    \/ \E f, c \in BOOLEAN : SmartFetch(1, 1, f, c)
    \/ RefreshCall(1, 1)
    \/ FetchOk(1)
    \/ FetchFails(1)
    \/ \E scored \in SUBSET FeedArticleIds : Merge(1, scored)
    \/ MergeFails(1)
    \/ \E a \in FeedArticleIds : Publish(a)
    \/ Tick

SpecSmartFeed == FeedInit /\ [][SmartNext /\ UNCHANGED <<cvars, rvars, lvars, pvars, ovars>>]_vars

\* one pipeline run; the event loop runs every task until it returns, and
\* every external call returns or times out
RunInit ==
    /\ ClusterIdle
    /\ embed_service = FeedEmbedding
    /\ FeedIdle
    /\ RunIdle
    /\ LearnIdle
    /\ PageIdle
    /\ OnboardingIdle

RunNext ==
    \/ \E c \in ClusterIds : StartJudgment(c)
    \/ \E c \in ClusterIds, r \in JudgmentResponses : JudgmentAnswers(c, r)
    \/ \E c \in ClusterIds : JudgmentTimeout(c)
    \/ \E c \in ClusterIds : Select(c)
    \/ \E c \in ClusterIds : \E add \in ResearchResults(c) : EnrichStory(c, add)
    \/ \E c \in ClusterIds : ResearchFails(c)
    \/ Emit

SpecRun == /\ RunInit
           /\ [][RunNext /\ UNCHANGED <<cvars, fvars, lvars, pvars, ovars>>]_vars
           /\ WF_vars(RunNext /\ UNCHANGED <<cvars, fvars, lvars, pvars, ovars>>)

\* the weight updates of one user under a configured learning rate
LearnInit ==
    /\ ClusterIdle
    /\ embed_service = FeedEmbedding
    /\ FeedIdle
    /\ RunIdle
    /\ weights = [k \in Keywords |-> DefaultWeight]
    /\ engagement_count = [k \in Keywords |-> 0]
    /\ learning_rate \in LearningRates
    /\ interaction = NoInteraction
    /\ PageIdle
    /\ OnboardingIdle

LearnNext == \E i \in Interactions : update_weights(i)

SpecLearn == LearnInit /\ [][LearnNext /\ UNCHANGED <<cvars, fvars, rvars, pvars, ovars>>]_vars

\* the personal page once mounted: the effects have sent loadPersistedFeed
\* for filter 'all' and the first checkForNewItems; the user's article is in
\* the feed or not yet
PageInit ==
    /\ ClusterIdle
    /\ embed_service = FeedEmbedding
    /\ FeedIdle
    /\ RunIdle
    /\ LearnIdle
    /\ OnboardingIdle
    /\ isLoading = FALSE
    /\ isRefreshing = FALSE
    /\ showNewItemsBanner = FALSE
    /\ newItemsCount = 0
    /\ viewMode = "persisted"
    /\ filterMode = "all"
    /\ persistedFeed = <<>>
    /\ persisted_seq = 0
    /\ persisted_filter = "all"
    /\ stored_item \in {NoItem, [NoItem EXCEPT !.in_feed = TRUE]}
    /\ request_seq = 1
    /\ refreshes = [h \in Requests |-> IdleRefresh]
    /\ scan = IdleLoad
    /\ loads = [l \in Requests |->
                  IF l = 1 THEN [pc |-> "getUserFeed", filter |-> "all", seq |-> 1]
                  ELSE IdleLoad]
    /\ counts = [k \in Requests |->
                   IF k = 1 THEN [pc |-> "getNewItemsCount",
                                  saw_banner |-> FALSE, epoch |-> 0]
                   ELSE IdleCount]
    /\ toggles = [t \in Requests |-> IdleToggle]
    /\ mark_checked = 0
    /\ refresh_epoch = 0
    /\ hidden_by_refresh = FALSE
    /\ polling_banner = FALSE
    /\ user_actions = 0

\* refreshes, scans and the polling for new items
PageNext ==
    \/ \E h \in Requests : HeaderRefresh(h)
    \/ \E h \in Requests : BannerClick(h)
    \/ \E h \in Requests : EmptyStateRefresh(h)
    \/ \E h \in Requests : PullToRefresh(h)
    \/ \E h \in Requests, added \in BOOLEAN : RefreshFeedOk(h, added)
    \/ \E h \in Requests : RefreshFeedFails(h)
    \/ \E h \in Requests, ok \in BOOLEAN : RefreshReloaded(h, ok)
    \/ \E h \in Requests : MarkCheckedReturns(h)
    \/ HandleScan
    \/ \E added \in BOOLEAN : ScanOk(added)
    \/ \E ok \in BOOLEAN : ScanReloaded(ok)
    \/ ScanFails
    \/ \E k \in Requests : Poll(k)
    \/ \E k \in Requests, n \in NewItemsCounts : CountReturns(k, n)
    \/ \E k \in Requests : CountFails(k)
    \/ \E l \in Requests, ok \in BOOLEAN : LoadReturns(l, ok)

SpecPage == PageInit /\ [][PageNext /\ UNCHANGED <<cvars, fvars, rvars, lvars, ovars>>]_vars

\* the filters, the view tabs and the cards' buttons
FeedViewNext ==
    \/ \E l \in Requests, m \in FilterModes : SetFilterMode(l, m)
    \/ \E l \in Requests, m \in ViewModes : SetViewMode(l, m)
    \/ \E l \in Requests, ok \in BOOLEAN : LoadReturns(l, ok)
    \/ \E t \in Requests, flag \in FlagNames : Click(t, flag)
    \/ \E t \in Requests : ToggleOk(t)
    \/ \E t \in Requests : ToggleFails(t)
    \/ \E t \in Requests, ok \in BOOLEAN : ToggleReloaded(t, ok)

SpecFeedView == PageInit /\ [][FeedViewNext /\ UNCHANGED <<cvars, fvars, rvars, lvars, ovars>>]_vars

\* the onboarding wizard from its first render
OnboardingInit ==
    /\ ClusterIdle
    /\ embed_service = FeedEmbedding
    /\ FeedIdle
    /\ RunIdle
    /\ LearnIdle
    /\ PageIdle
    /\ OnboardingIdle

OnboardingNext ==
    \/ LoadPresets
    \/ Navigate("welcome", "presets", TRUE)
    \/ Navigate("presets", "welcome", TRUE)
    \/ Navigate("presets", "customize", canProceedToCustomize)
    \/ Navigate("customize", "presets", TRUE)
    \/ Navigate("customize", "complete",
                canComplete(selectedCategories, selectedKeywords, selectedSources))
    \/ \E p \in PresetKeys : handlePresetSelect(p)
    \/ \E k \in Keywords : handleAddKeyword(k)
    \/ \E k \in Keywords : handleRemoveKeyword(k)
    \/ handleComplete
    \/ \E ok \in BOOLEAN : CompleteReturns(ok)

SpecOnboarding == OnboardingInit /\ [][OnboardingNext /\ UNCHANGED <<cvars, fvars, rvars, lvars, pvars>>]_vars

\* ------------------------------------------------------------------------
\* Properties of the Deduplicator

InputIds(r) == {r.input[i] : i \in DOMAIN r.input}
FailedIds(r) == {r.input[i] : i \in {k \in DOMAIN r.input : r.emb[k] = EmbeddingError}}
ClustersOf(r, a) == {k \in DOMAIN r.clusters : a \in r.clusters[k]}
ClusterSet(r) == {r.clusters[k] : k \in DOMAIN r.clusters}
ClusterOfArticle(r, a) == UNION {r.clusters[k] : k \in ClustersOf(r, a)}

\* C4: the clusters of every run partition its input: each input article id
\* is in exactly one cluster, no cluster is empty, and no cluster holds an id
\* that was not in the input.
C4_ClustersPartitionInput ==
    run # NoRun =>
        /\ \A a \in InputIds(run) : Cardinality(ClustersOf(run, a)) = 1
        /\ \A k \in DOMAIN run.clusters : run.clusters[k] # {}
        /\ UNION ClusterSet(run) \subseteq InputIds(run)

C4_Witness ==
    /\ run # NoRun
    /\ Len(run.clusters) >= 2
    /\ \E k \in DOMAIN run.clusters : Cardinality(run.clusters[k]) >= 2

\* positions i, j of a run joined by an edge of the similarity graph
Similar(r, i, j) ==
    /\ r.emb[i] # EmbeddingError
    /\ r.emb[j] # EmbeddingError
    /\ cosine_similarity(r.emb[i], r.emb[j]) >= r.thr

\* the positions a chain of edges connects to position i
RECURSIVE Reach(_, _)
Reach(r, S) ==
    LET T == S \cup {j \in DOMAIN r.input : \E i \in S : Similar(r, i, j)}
    IN IF T = S THEN S ELSE Reach(r, T)

\* C5: two articles of a run are in the same cluster exactly when a chain of
\* pairs with similarity >= threshold connects them; in particular every pair
\* with similarity >= threshold is in one cluster.
C5_ClustersAreConnectedComponents ==
    run # NoRun =>
        \A i, j \in DOMAIN run.input :
            (ClustersOf(run, run.input[i]) = ClustersOf(run, run.input[j]))
                <=> (j \in Reach(run, {i}))

C5_Witness ==
    /\ run # NoRun
    /\ \E i, j \in DOMAIN run.input :
          /\ i # j
          /\ ~Similar(run, i, j)
          /\ run.emb[i] # EmbeddingError /\ run.emb[j] # EmbeddingError
          /\ ClustersOf(run, run.input[i]) = ClustersOf(run, run.input[j])

\* C6: for the same articles and embeddings, each article's cluster at the
\* lower threshold contains its whole cluster at the higher threshold.
C6_LowerThresholdGrowsClusters ==
    (/\ run # NoRun /\ prev_run # NoRun
     /\ run.input = prev_run.input /\ run.emb = prev_run.emb) =>
        \A a \in InputIds(run) :
            /\ run.thr <= prev_run.thr =>
                  ClusterOfArticle(prev_run, a) \subseteq ClusterOfArticle(run, a)
            /\ prev_run.thr <= run.thr =>
                  ClusterOfArticle(run, a) \subseteq ClusterOfArticle(prev_run, a)

C6_Witness ==
    /\ run # NoRun /\ prev_run # NoRun
    /\ run.input = prev_run.input /\ run.emb = prev_run.emb
    /\ run.thr < prev_run.thr
    /\ \E a \in InputIds(run) :
          /\ ClusterOfArticle(prev_run, a) # ClusterOfArticle(run, a)
          /\ Cardinality(ClusterOfArticle(prev_run, a)) >= 2

\* the input list and embeddings of a run without the articles whose
\* embedding failed
OkPositions(r) == {i \in DOMAIN r.input : r.emb[i] # EmbeddingError}
RECURSIVE Keep(_, _, _)
Keep(s, P, i) ==
    IF i > Len(s) THEN <<>>
    ELSE (IF i \in P THEN <<s[i]>> ELSE <<>>) \o Keep(s, P, i + 1)

\* C10: an embedding failure does not abort the run: the article is alone in
\* its cluster, every failure is counted, and the other articles are
\* clustered as they are without the failed ones.
C10_EmbeddingFailureIsolated ==
    run # NoRun =>
        /\ \A a \in FailedIds(run) : ClusterOfArticle(run, a) = {a}
        /\ run.errors = Cardinality(FailedIds(run))
        /\ LET ok == OkPositions(run)
               others == cluster_articles(Keep(run.input, ok, 1),
                                          Keep(run.emb, ok, 1), run.thr)
           IN {c \in ClusterSet(run) : c \cap FailedIds(run) = {}}
                 = {others[k] : k \in DOMAIN others}

C10_Witness ==
    /\ run # NoRun
    /\ run.errors >= 1
    /\ \E k \in DOMAIN run.clusters : Cardinality(run.clusters[k]) >= 2
    /\ \E a \in FailedIds(run) : ClusterOfArticle(run, a) = {a}

\* ------------------------------------------------------------------------
\* Properties of the Incremental Updater & Cache

\* C1: the persisted feed never holds two rows with the same
\* (user_id, article_id), whatever refreshes have run.
C1_FeedItemsUnique ==
    \A r \in BagToSet(feed_items) : CopiesIn(r, feed_items) = 1

\* a refresh met an article the user's feed already had, and the same
\* article is in both users' feeds
C1_Witness ==
    /\ response.op = "refresh" /\ response.status = "ok"
    /\ response.ok_stories \cap response.feed_before # {}
    /\ \E a \in FeedArticleIds :
          \A u \in Users : CopiesIn(FeedRow(u, a), feed_items) = 1

InSection(p, u) == calls[p].pc = "merging" /\ calls[p].user = u

\* C2: overlapping refreshes of one user are serialised: at most one call
\* is between its fetch and its merge, and the feed gets each article once.
C2_RefreshSerialised ==
    /\ \A u \in Users : Cardinality({p \in Calls : InSection(p, u)}) <= 1
    /\ \A u \in Users, p \in Calls : InSection(p, u) => refresh_lock[u] = p
    /\ \A r \in BagToSet(feed_items) : CopiesIn(r, feed_items) <= 1

\* one refresh holds the section with articles to merge while another
\* refresh of the same user waits
C2_Witness ==
    \E p, q \in Calls :
        /\ InSection(p, 1) /\ calls[p].fetched # {}
        /\ calls[q].pc = "waiting" /\ calls[q].user = 1

C8_PartialFailureReported ==
    (/\ response.op # "none" /\ ~response.from_cache
     /\ response.failed_clusters > 0 /\ response.ok_stories # {}) =>
        /\ response.status = "ok"
        /\ response.ok_stories \subseteq response.payload
        /\ response.body.new_items_added =
              Cardinality(response.ok_stories \ response.feed_before)
        /\ ErrorCount(response.body) > 0

\* the cache entry a smart_fetch call found was unexpired when it looked
FoundValid(c) == c.cache_expires_at > 0 /\ c.called_at < c.cache_expires_at
Refreshing(c) == c.op = "smart_fetch" /\ c.pc \in {"waiting", "merging"}

EmittedOnce(c) == Cardinality({i \in DOMAIN emitted : emitted[i].cluster = c}) = 1
FailedClusters == {c \in ClusterIds : tasks[c].pc = "failed"}

ReturnsFromMerge(p) == calls[p].pc = "merging" /\ calls'[p].pc = "idle"
\* call p returns in this step without having fetched
ReturnsFromFetch(p) == calls[p].pc = "waiting" /\ calls'[p].pc = "idle"

\* C11: a refresh or smart_fetch whose store write fails is answered as
\* failed, and the user's cached payload, its expiry and
\* last_seen_published_at are what they were before.
C11_PersistenceErrorKeepsCache ==
    [][\A p \in Calls :
          (ReturnsFromMerge(p) /\ response'.status # "ok") =>
              /\ response'.status = "failed"
              /\ response'.body = ErrorBody("PersistenceError")
              /\ response'.user = calls[p].user /\ response'.op = calls[p].op
              /\ feed_cache' = feed_cache
              /\ last_seen' = last_seen
              /\ feed_items' = feed_items]_vars

\* a smart_fetch that found the user's cache expired has failed at the
\* store while the collector had an article newer than last_seen
C11_Witness ==
    /\ response.op = "smart_fetch" /\ response.status = "failed"
    /\ response.body = ErrorBody("PersistenceError")
    /\ feed_cache[1].cached /\ feed_cache[1].expires_at <= now
    /\ last_seen[1] > 0
    /\ \E a \in CollectorArticles : published_at[a] > last_seen[1]

\* C12: a refresh whose collector fetch fails is aborted: it is answered as
\* failed, nothing is merged, and the user's cached payload is kept.
C12_CollectionErrorKeepsCache ==
    [][\A p \in Calls :
          ReturnsFromFetch(p) =>
              /\ response'.status = "failed"
              /\ response'.body = ErrorBody("CollectionError")
              /\ response'.user = calls[p].user
              /\ feed_items' = feed_items
              /\ feed_cache' = feed_cache
              /\ last_seen' = last_seen]_vars

\* a refresh of a user with a cached, non-empty feed has failed at the
\* collector
C12_Witness ==
    /\ response.op = "refresh" /\ response.status = "failed"
    /\ response.body = ErrorBody("CollectionError")
    /\ feed_cache[response.user].cached
    /\ feed_cache[response.user].feed_data # {}
    /\ UserFeed(feed_items, response.user) = response.feed_before

StoryOf(c) == {emitted[i] : i \in {k \in DOMAIN emitted : emitted[k].cluster = c}}
Scored(c) == tasks[c].pc \in {"scored", "researching", "done"}
ElementsOf(seq) == {seq[i] : i \in DOMAIN seq}

\* C14: a story whose overall hotness is below the threshold, by however
\* little, is never researched nor marked research_enriched; a story whose
\* overall hotness equals the threshold is escalated (>=, not >).
C14_EscalationBoundary ==
    /\ [](\A c \in ClusterIds :
            (Scored(c) /\ tasks[c].overall < deep_research_threshold) =>
                /\ tasks[c].pc # "researching"
                /\ tasks[c].research = "none"
                /\ ~tasks[c].research_enriched
                /\ \A st \in StoryOf(c) : ~st.research_enriched)
    /\ [][\A c \in ClusterIds :
            (tasks[c].pc = "scored" /\ tasks'[c].pc # "scored"
             /\ tasks[c].overall >= deep_research_threshold) =>
                tasks'[c].pc = "researching"]_vars

\* a run has emitted an enriched story scored exactly at the threshold and
\* an un-enriched one scored just below it
C14_Witness ==
    /\ run_done
    /\ \E i, j \in DOMAIN emitted :
          /\ emitted[i].overall = deep_research_threshold
          /\ emitted[i].research_enriched
          /\ emitted[j].overall = deep_research_threshold - 1
          /\ ~emitted[j].research_enriched

\* C15: a story carries research_enriched = true only if its deep research
\* completed: the report is in the draft and the research sources are among
\* the story's sources.
C15_EnrichedOnlyAfterResearch ==
    /\ \A c \in ClusterIds :
          tasks[c].research_enriched =>
              /\ tasks[c].research = "ok"
              /\ tasks[c].draft = "full+research"
              /\ ElementsOf(tasks[c].research_sources) \subseteq
                    ElementsOf(tasks[c].sources)
    /\ \A i \in DOMAIN emitted :
          emitted[i].research_enriched =>
              /\ tasks[emitted[i].cluster].research = "ok"
              /\ emitted[i].draft = "full+research"
              /\ ElementsOf(tasks[emitted[i].cluster].research_sources) \subseteq
                    ElementsOf(emitted[i].sources)

\* a run has emitted an enriched story and a story whose research failed
C15_Witness ==
    /\ run_done
    /\ \E i, j \in DOMAIN emitted :
          /\ emitted[i].research_enriched
          /\ ResearchOnlyUrl \in ElementsOf(emitted[i].sources)
          /\ tasks[emitted[j].cluster].research = "failed"

NoDuplicates(seq) == \A i, j \in DOMAIN seq : seq[i] = seq[j] => i = j

\* C17 as stated: after a successful enrichment the story's sources are the
\* URL-deduplicated union of its original sources and the research sources.
C17_SourcesDeduplicatedUnion ==
    \A c \in ClusterIds :
        tasks[c].research = "ok" =>
            /\ NoDuplicates(tasks[c].sources)
            /\ ElementsOf(tasks[c].sources) =
                  ElementsOf(source_urls(c)) \cup ElementsOf(tasks[c].research_sources)

\* ------------------------------------------------------------------------
\* Properties of the Learning Engine

\* this step applies an interaction of type `type` that matches keyword k
Applies(type, k) ==
    /\ engagement_count'[k] = engagement_count[k] + 1
    /\ interaction'.interaction_type = type
    /\ k \in interaction'.matched_keywords

\* C18: every further "like" that references a keyword strictly increases
\* the keyword's stored weight, or leaves it at the 1.0 ceiling.
C18_LikeIncreasesWeight ==
    [][\A k \in Keywords :
          Applies("like", k) =>
              \/ weights'[k] > weights[k]
              \/ weights[k] = 100 /\ weights'[k] = 100]_vars

\* under the smallest learning rate a like has raised, for the second time
\* in a row, a keyword's weight above the default and short of the ceiling
C18_Witness ==
    /\ interaction.interaction_type = "like"
    /\ learning_rate = 1
    /\ \E k \in Keywords :
          /\ k \in interaction.matched_keywords
          /\ engagement_count[k] = 2
          /\ weights[k] >= DefaultWeight + 12
          /\ weights[k] < 100

\* C19 as stated: every "dislike" that references a keyword strictly
\* decreases the keyword's stored weight, or leaves it at the lower clamp
\* bound, whatever else the interaction carries.
C19_DislikeDecreasesWeight ==
    [][\A k \in Keywords :
          Applies("dislike", k) =>
              \/ weights'[k] < weights[k]
              \/ weights[k] = 0 /\ weights'[k] = 0]_vars

\* C20: after any sequence of updates, with any interactions and any
\* learning rate, every stored weight lies in [0, 1].
C20_WeightsInUnitInterval ==
    \A k \in Keywords : weights[k] >= 0 /\ weights[k] <= 100

\* under the largest learning rate one keyword has been pushed to the
\* ceiling and the other to the floor
C20_Witness ==
    /\ learning_rate = 20
    /\ \E k, m \in Keywords : weights[k] = 100 /\ weights[m] = 0
    /\ interaction.interaction_type = "dislike"

InFlight == {c \in ClusterIds : tasks[c].pc \in {"judging", "researching"}}

\* C22 as stated: at every moment of a run the calls in flight to the
\* external services are at most max_concurrent_external_calls.
C22_ExternalCallsBounded ==
    Cardinality(InFlight) <= max_concurrent_external_calls

\* C23: whatever the order in which the clusters' tasks return, the run
\* emits the same list: the stories of the returned clusters, by descending
\* overall hotness, equal scores in the order of the clusters.
C23_EmittedOrderIndependent ==
    run_done =>
        /\ {emitted[i].cluster : i \in DOMAIN emitted} = EmittedClusters(tasks)
        /\ \A i \in DOMAIN emitted : emitted[i] = Story(emitted[i].cluster)
        /\ \A i, j \in DOMAIN emitted :
              i < j => \/ emitted[i].overall > emitted[j].overall
                       \/ /\ emitted[i].overall = emitted[j].overall
                          /\ emitted[i].cluster < emitted[j].cluster

\* a run has emitted two stories with equal scores whose tasks returned in
\* the reverse of the clusters' order, after a story with a higher score
C23_Witness ==
    /\ run_done
    /\ Len(emitted) = 3
    /\ emitted[1].overall > emitted[2].overall
    /\ emitted[2].overall = emitted[3].overall
    /\ Position(returned, emitted[3].cluster) < Position(returned, emitted[2].cluster)
    /\ Position(returned, emitted[2].cluster) < Position(returned, emitted[1].cluster)

\* C24: a cluster's judgment is called at most twice in a run: an invalid
\* response is retried once, and a second invalid response makes the cluster
\* a scoring failure.
C24_AtMostOneRetry ==
    /\ [](\A c \in ClusterIds :
            /\ tasks[c].judgment_calls <= 2
            /\ tasks[c].pc = "pending" => tasks[c].judgment_calls <= 1)
    /\ [][\A c \in ClusterIds :
            (tasks[c].pc = "judging" /\ tasks[c].judgment_calls = 2
             /\ tasks'[c].pc \notin {"judging", "scored"}) =>
                /\ tasks'[c].pc = "failed"
                /\ scoring_errors' = scoring_errors + 1]_vars

\* a completed run in which one cluster failed after two judgment calls and
\* another was scored at its second call
C24_Witness ==
    /\ run_done
    /\ \E c, d \in ClusterIds :
          /\ tasks[c].pc = "failed" /\ tasks[c].judgment_calls = 2
          /\ tasks[d].pc = "done" /\ tasks[d].judgment_calls = 2

\* ---------------------------------------------------------------------
\* Properties of the personal page

RefreshFeedInFlight == {h \in Requests : refreshes[h].pc = "refreshFeed"}

\* C25 as stated: at most one refreshFeed request of the page is in flight
\* at any time.
C25_OneRefreshInFlight == Cardinality(RefreshFeedInFlight) <= 1

\* C26 as stated: the response of a getUserFeed call made for an earlier
\* filter never replaces, on the page, the response of a call made later for
\* another filter.
C26_LaterFilterNotOverwritten ==
    [][persisted_seq' < persisted_seq => persisted_filter' = persisted_filter]_vars

\* the value a click would ask for if it went by the flag the server has
OppositeOfStored(flag) == ~stored_item[flag]

\* C27 as stated: every click on like, dislike or save asks for the opposite
\* of the flag the item has at the server at that moment.
C27_ClickRequestsOppositeOfStored ==
    [][\A t \in Requests :
          (toggles[t].pc = "idle" /\ toggles'[t].pc = "toggle") =>
              toggles'[t].value = OppositeOfStored(toggles'[t].flag)]_vars

\* C28: a handleIncrementalRefresh gets past refreshFeed only if refreshFeed
\* succeeded; the step in which refreshFeed fails leaves showNewItemsBanner,
\* newItemsCount and the markFeedChecked calls as they were; markFeedChecked
\* is sent, and the banner is switched off, only in the step that follows a
\* successful refreshFeed and its reloads, and that step resets both values.
C28_ResetOnlyAfterSuccess ==
    /\ [](\A h \in Requests :
             refreshes[h].pc \in {"getUserFeed", "markFeedChecked"} =>
                 refreshes[h].outcome = "ok")
    /\ [][/\ \A h \in Requests :
                (refreshes[h].pc = "refreshFeed" /\ refreshes'[h].outcome = "failed") =>
                    /\ showNewItemsBanner' = showNewItemsBanner
                    /\ newItemsCount' = newItemsCount
                    /\ mark_checked' = mark_checked
          /\ (mark_checked' # mark_checked \/ (showNewItemsBanner /\ ~showNewItemsBanner')) =>
                \E h \in Requests :
                    /\ refreshes[h].pc = "getUserFeed"
                    /\ refreshes[h].outcome = "ok"
                    /\ refreshes'[h].pc = "markFeedChecked"
                    /\ mark_checked' = mark_checked + 1
                    /\ ~showNewItemsBanner'
                    /\ newItemsCount' = 0]_vars

\* one refresh has failed and left no markFeedChecked behind, then another
\* succeeded, hid the banner that was showing and sent the one markFeedChecked
C28_Witness ==
    \E h, g \in Requests :
        /\ refreshes[h].pc = "idle" /\ refreshes[h].outcome = "failed"
        /\ refreshes[g].pc = "markFeedChecked" /\ refreshes[g].outcome = "ok"
        /\ hidden_by_refresh
        /\ mark_checked = 1

\* C29 as stated: once a successful refresh has hidden the banner, only the
\* answer to a getNewItemsCount call made after that refresh reset the
\* banner makes it visible again.
C29_BannerOnlyByLaterCheck ==
    [][(hidden_by_refresh /\ ~BannerVisible /\ BannerVisible') =>
          \E k \in Requests :
              /\ counts[k].pc = "getNewItemsCount"
              /\ counts'[k].pc = "idle"
              /\ counts[k].epoch = refresh_epoch]_vars

\* ---------------------------------------------------------------------
\* Properties of the onboarding wizard

Filled(preset, categories, keywords, sources) ==
    /\ preset # NoPreset
    /\ categories # {}
    /\ keywords # <<>>
    /\ sources # {}

\* C30: every completeOnboarding request carries a preset and non-empty
\* categories, keywords and sources, and the wizard is on its 'complete'
\* step only with such a selection.
C30_CompleteOnlyWhenFilled ==
    /\ \A i \in DOMAIN completions :
          Filled(completions[i].preset_key, completions[i].categories,
                 completions[i].keywords, completions[i].sources)
    /\ currentStep = "complete" =>
          Filled(selectedPreset, selectedCategories, selectedKeywords,
                 selectedSources)

\* the wizard was completed with the preset that has no keywords of its
\* own, after the user added a keyword on the customize step
C30_Witness ==
    /\ left_page
    /\ completions # <<>>
    /\ completions[1].preset_key = 2
    /\ completions[1].keywords = <<2>>

====
